---- MODULE Spec2Model ----
(***************************************************************************)
(* Model of the ithotlist-api request handlers: the job, candidate and     *)
(* hotlist routes (src/routes/jobs.js holds the three route files and the  *)
(* upload configuration), the record schemas (src/models/Job.js,           *)
(* src/unnamed/part_000) and the application wiring (src/server.js).       *)
(*                                                                         *)
(* Every request runs as an asynchronous task: it suspends at each await   *)
(* and other requests run in between.  A request slot moves                *)
(*   idle -> (one state per await of its handler) -> done.                 *)
(* A single store operation (insert, findByIdAndUpdate, find, count) is    *)
(* one atomic step of the document store.                                  *)
(***************************************************************************)
EXTENDS Integers, Sequences, FiniteSets, TLC

VARIABLES
    jobs,        \* Job collection, in insertion order
    candidates,  \* Candidate collection, in insertion order
    hotlists,    \* Hotlist collection
    uploads,     \* uploads directory: file name -> request that wrote it
    now,         \* Date.now(), in milliseconds
    reqs,        \* request slot -> state of the request running in it
    tok,         \* the two skill tokenizers applied to one input string
    env          \* process.env.NODE_ENV of the deployment

vars == <<jobs, candidates, hotlists, uploads, now, reqs, tok, env>>

----------------------------------------------------------------------------
(* Bounds of the model *)

NumReqs == 2        \* request slots
MaxSupplied == 2    \* filter parameters one listing request supplies at most
MaxCreated == 1     \* jobs created on top of the initial ones
MaxSkillsLen == 4   \* length of the comma-separated skills strings
MaxClock == 2       \* the clock stops advancing at this millisecond

Reqs == 1..NumReqs

----------------------------------------------------------------------------
(* Generic helpers *)

Range(s) == {s[i] : i \in DOMAIN s}

Min(a, b) == IF a <= b THEN a ELSE b

Max(a, b) == IF a >= b THEN a ELSE b

----------------------------------------------------------------------------
(* Identifiers.  A path parameter is either castable to an ObjectId        *)
(* (wellFormed) or not; a castable one names at most one record.           *)

ObjId(k) == [wellFormed |-> TRUE, key |-> k]

BadId == [wellFormed |-> FALSE, key |-> 0]


----------------------------------------------------------------------------
(* The collections at start-up *)

InitialJobs ==
    << [_id |-> 1, title |-> <<"G", "o">>, description |-> <<"a", "b">>,
        company |-> [name |-> <<"A", "g">>], jobType |-> "Full-time",
        experienceLevel |-> "Lead", location |-> <<"B", "o">>, remote |-> TRUE,
        primaryTechnology |-> "Go", requiredSkills |-> << <<"G", "o">>, <<"A", "b">> >>,
        status |-> "active", postedDate |-> 0, updatedAt |-> 0,
        views |-> 0, applications |-> 0],
       [_id |-> 2, title |-> <<"B", "a">>, description |-> <<"o">>,
        company |-> [name |-> <<"O", "b">>], jobType |-> "Contract",
        experienceLevel |-> "Lead", location |-> <<"G", "a">>, remote |-> FALSE,
        primaryTechnology |-> "JS", requiredSkills |-> << <<"B">> >>,
        status |-> "draft", postedDate |-> 1, updatedAt |-> 1,
        views |-> 0, applications |-> 0] >>

InitialCandidates ==
    << [_id |-> 1, name |-> "Ann", email |-> "ann@x", owner |-> 0,
        resumeFile |-> [path |-> <<>>]] >>

InitialHotlists == << [_id |-> 1, name |-> "Top", candidates |-> <<1>>] >>

\* the identifiers a caller sends: those of the stored records, one that is
\* well-formed and names no record, and a malformed one
IdInputs == {ObjId(k) : k \in 1..(Len(InitialJobs) + 1)} \cup {BadId}

IdleReq == [kind |-> "none", pc |-> "idle", status |-> 0]

\* the slot the next request takes: requests are numbered as they arrive
Arriving ==
    {r \in Reqs : reqs[r].pc = "idle" /\ \A x \in 1..(r - 1) : reqs[x].pc # "idle"}

IdleTok == [pc |-> "idle", input |-> <<>>, candidate |-> <<>>, filter |-> <<>>]

Init ==
    /\ jobs = InitialJobs
    /\ candidates = InitialCandidates
    /\ hotlists = InitialHotlists
    /\ uploads = <<>>
    /\ now = 1
    /\ reqs = [r \in Reqs |-> IdleReq]
    /\ tok = IdleTok
    /\ env = "production"

----------------------------------------------------------------------------
(* The document store: lookups by identifier *)

\* Model.findById: a cast error for an identifier that is no ObjectId, else
\* the document or null
FindById(coll, id) ==
    IF ~id.wellFormed THEN [outcome |-> "CastError", at |-> 0]
    ELSE IF \E i \in DOMAIN coll : coll[i]._id = id.key
         THEN [outcome |-> "doc", at |-> CHOOSE i \in DOMAIN coll : coll[i]._id = id.key]
         ELSE [outcome |-> "null", at |-> 0]

\* the update documents of the two counter routes
ViewsUpdate == [field |-> "views", by |-> 1]

ApplyUpdateViews == [field |-> "views", by |-> 1]

ApplyUpdate == [field |-> "applications", by |-> 1]

\* $inc applied to one document
Inc(doc, upd) ==
    IF upd.field = "views" THEN [doc EXCEPT !.views = @ + upd.by]
    ELSE [doc EXCEPT !.applications = @ + upd.by]

\* Job.findByIdAndUpdate(id, {$inc: ...}, {new: true}): one atomic step of
\* the store; the collection afterwards
FindByIdAndUpdate(coll, id, upd) ==
    LET f == FindById(coll, id)
    IN  IF f.outcome = "doc" THEN [coll EXCEPT ![f.at] = Inc(@, upd)] ELSE coll

\* what a store call may return: the cast error (raised before the store is
\* reached), or else its result or a storage error
StoreOutcomes(f) ==
    IF f.outcome = "CastError" THEN {"CastError"} ELSE {f.outcome, "StoreError"}

----------------------------------------------------------------------------
(* GET /jobs/:id *)

GetJobCall(r, id) ==
    /\ r \in Arriving
    /\ \E out \in StoreOutcomes(FindById(jobs, id)) :
          /\ jobs' = IF out = "doc" THEN FindByIdAndUpdate(jobs, id, ViewsUpdate) ELSE jobs
          /\ reqs' = [reqs EXCEPT ![r] =
                 [kind |-> "getJob", pc |-> "await", status |-> 0, id |-> id, result |-> out,
                  detail |-> FALSE]]
    /\ UNCHANGED <<candidates, hotlists, uploads, now, tok, env>>

\* the status GET /jobs/:id answers with
GetJobStatus(result) ==
    CASE result = "null" -> 404
      [] result = "doc" -> 200
      [] result = "CastError" -> 400
      [] OTHER -> 500

\* the error field of a guarded 500 body:
\* process.env.NODE_ENV === 'development' ? err.message : undefined
DevelopmentDetail == env = "development"

\* whether the body GET /jobs/:id answers with carries err.message
GetJobDetail(result) == GetJobStatus(result) = 500 /\ DevelopmentDetail

GetJobRespond(r) ==
    /\ reqs[r].kind = "getJob" /\ reqs[r].pc = "await"
    /\ reqs' = [reqs EXCEPT ![r].pc = "done", ![r].status = GetJobStatus(reqs[r].result),
                             ![r].detail = GetJobDetail(reqs[r].result)]
    /\ UNCHANGED <<jobs, candidates, hotlists, uploads, now, tok, env>>

(* POST /jobs/:id/apply *)

ApplyCall(r, id) ==
    /\ r \in Arriving
    /\ \E out \in StoreOutcomes(FindById(jobs, id)) :
          /\ jobs' = IF out = "doc" THEN FindByIdAndUpdate(jobs, id, ApplyUpdate) ELSE jobs
          /\ reqs' = [reqs EXCEPT ![r] =
                 [kind |-> "apply", pc |-> "await", status |-> 0, id |-> id, result |-> out,
                  detail |-> FALSE]]
    /\ UNCHANGED <<candidates, hotlists, uploads, now, tok, env>>

\* the status of a handler whose catch answers every error with 500
PlainLookupStatus(result) ==
    CASE result = "null" -> 404
      [] result = "doc" -> 200
      [] OTHER -> 500

\* whether the body carries err.message, for a handler whose catch answers
\* { message: err.message }
PlainLookupDetail(result) == PlainLookupStatus(result) = 500

ApplyRespond(r) ==
    /\ reqs[r].kind = "apply" /\ reqs[r].pc = "await"
    /\ reqs' = [reqs EXCEPT ![r].pc = "done", ![r].status = PlainLookupStatus(reqs[r].result),
                             ![r].detail = PlainLookupDetail(reqs[r].result)]
    /\ UNCHANGED <<jobs, candidates, hotlists, uploads, now, tok, env>>

(* GET /candidates/:id *)

GetCandidateCall(r, id) ==
    /\ r \in Arriving
    /\ \E out \in StoreOutcomes(FindById(candidates, id)) :
          reqs' = [reqs EXCEPT ![r] =
              [kind |-> "getCandidate", pc |-> "await", status |-> 0, id |-> id, result |-> out,
                  detail |-> FALSE]]
    /\ UNCHANGED <<jobs, candidates, hotlists, uploads, now, tok, env>>

GetCandidateRespond(r) ==
    /\ reqs[r].kind = "getCandidate" /\ reqs[r].pc = "await"
    /\ reqs' = [reqs EXCEPT ![r].pc = "done", ![r].status = PlainLookupStatus(reqs[r].result),
                             ![r].detail = PlainLookupDetail(reqs[r].result)]
    /\ UNCHANGED <<jobs, candidates, hotlists, uploads, now, tok, env>>

(* GET /hotlist/:id *)

GetHotlistCall(r, id) ==
    /\ r \in Arriving
    /\ \E out \in StoreOutcomes(FindById(hotlists, id)) :
          reqs' = [reqs EXCEPT ![r] =
              [kind |-> "getHotlist", pc |-> "await", status |-> 0, id |-> id, result |-> out,
                  detail |-> FALSE]]
    /\ UNCHANGED <<jobs, candidates, hotlists, uploads, now, tok, env>>

GetHotlistRespond(r) ==
    /\ reqs[r].kind = "getHotlist" /\ reqs[r].pc = "await"
    /\ reqs' = [reqs EXCEPT ![r].pc = "done", ![r].status = PlainLookupStatus(reqs[r].result),
                             ![r].detail = PlainLookupDetail(reqs[r].result)]
    /\ UNCHANGED <<jobs, candidates, hotlists, uploads, now, tok, env>>

LookupKinds == {"getJob", "apply", "getCandidate", "getHotlist"}

NextLookup ==
    \E r \in Reqs :
        \/ \E id \in IdInputs : GetJobCall(r, id)
        \/ GetJobRespond(r)
        \/ \E id \in IdInputs : ApplyCall(r, id)
        \/ ApplyRespond(r)
        \/ \E id \in IdInputs : GetCandidateCall(r, id)
        \/ GetCandidateRespond(r)
        \/ \E id \in IdInputs : GetHotlistCall(r, id)
        \/ GetHotlistRespond(r)

SpecLookup == Init /\ [][NextLookup]_vars

----------------------------------------------------------------------------
(* Candidate schema and collection *)

\* the required validators of the schema (name, email): an omitted or empty
\* string fails them
RequiredOk(doc) == doc.name # "" /\ doc.email # ""

\* the unique index on email refuses a second document with the email
UniqueEmailViolated(coll, email) == \E i \in DOMAIN coll : coll[i].email = email

\* candidate.save(): validation, then the insert under the unique index
SaveOutcomes(doc, coll) ==
    IF ~RequiredOk(doc) THEN {"ValidationError"}
    ELSE IF UniqueEmailViolated(coll, doc.email) THEN {"DuplicateKey"}
    ELSE {"ok", "StoreError"}

InsertCandidate(coll, doc) == Append(coll, [doc EXCEPT !._id = Len(coll) + 1])

----------------------------------------------------------------------------
(* Upload configuration (multer) *)

NoFile == [present |-> FALSE, mimetype |-> "", size |-> 0, originalname |-> ""]

FileSizeLimit == 5 * 1024 * 1024

AcceptedMimeTypes ==
    {"application/pdf", "application/msword",
     "application/vnd.openxmlformats-officedocument.wordprocessingml.document"}

\* fileFilter of the resumeFile field
FileFilter(file) == file.mimetype \in AcceptedMimeTypes

\* storage.filename: Date.now() + '-' + originalname
Filename(t, file) == <<t, file.originalname>>

\* the directory after a file is written under a name (an existing file of
\* that name is overwritten)
WriteFile(dir, name, r) == [n \in DOMAIN dir \cup {name} |-> IF n = name THEN r ELSE dir[n]]

\* fs.unlink / multer's removal of a file it stored
RemoveFile(dir, name) == [n \in DOMAIN dir \ {name} |-> dir[n]]

\* the application registers no error middleware: an error passed to next()
\* reaches the framework's default handler, which answers 500
DefaultErrorStatus == 500

----------------------------------------------------------------------------
(* The clock *)

Tick ==
    /\ now < MaxClock
    /\ now' = now + 1
    /\ UNCHANGED <<jobs, candidates, hotlists, uploads, reqs, tok, env>>

----------------------------------------------------------------------------
(* POST /candidate *)

NewCandidate(r, name, email, path) ==
    [_id |-> 0, name |-> name, email |-> email, owner |-> r, resumeFile |-> [path |-> path]]

\* the handler has one await, candidate.save(), and answers right after it
CreateCandidate(r, name, email) ==
    /\ r \in Arriving
    /\ LET doc == NewCandidate(r, name, email, <<>>)
       IN  \E out \in SaveOutcomes(doc, candidates) :
              /\ candidates' = IF out = "ok" THEN InsertCandidate(candidates, doc) ELSE candidates
              /\ reqs' = [reqs EXCEPT ![r] =
                     [kind |-> "createCandidate", pc |-> "done",
                      status |-> IF out = "ok" THEN 201 ELSE 400,
                      email |-> email, file |-> NoFile, path |-> <<>>, result |-> out,
                      taken |-> UniqueEmailViolated(candidates, email)]]
    /\ UNCHANGED <<jobs, hotlists, uploads, now, tok, env>>

(* POST /candidate/with-resume *)

\* upload.single('resumeFile'): the request arrives; a file that passes the
\* filter starts being written under its generated name
UploadBegin(r, name, email, file) ==
    /\ r \in Arriving
    /\ LET base == [kind |-> "withResume", status |-> 0, name |-> name, email |-> email,
                    file |-> file, path |-> <<>>, result |-> "",
                    taken |-> UniqueEmailViolated(candidates, email)]
       IN  IF ~file.present
           THEN /\ reqs' = [reqs EXCEPT ![r] = base @@ [pc |-> "handler"]]
                /\ UNCHANGED uploads
           ELSE IF ~FileFilter(file)
           THEN /\ reqs' = [reqs EXCEPT ![r] = base @@ [pc |-> "error"]]
                /\ UNCHANGED uploads
           ELSE /\ reqs' = [reqs EXCEPT ![r] =
                       [base EXCEPT !.path = Filename(now, file)] @@ [pc |-> "writing"]]
                /\ uploads' = WriteFile(uploads, Filename(now, file), r)
    /\ UNCHANGED <<jobs, candidates, hotlists, now, tok, env>>

\* the upload ends: a file over the size limit is removed and the error is
\* passed on; otherwise req.file is set and the handler runs
UploadEnd(r) ==
    /\ reqs[r].kind = "withResume" /\ reqs[r].pc = "writing"
    /\ IF reqs[r].file.size > FileSizeLimit
       THEN /\ uploads' = RemoveFile(uploads, reqs[r].path)
            /\ reqs' = [reqs EXCEPT ![r].pc = "error"]
       ELSE /\ reqs' = [reqs EXCEPT ![r].pc = "handler"]
            /\ UNCHANGED uploads
    /\ UNCHANGED <<jobs, candidates, hotlists, now, tok, env>>

\* an upload error reaches the default error handler
UploadErrorRespond(r) ==
    /\ reqs[r].kind = "withResume" /\ reqs[r].pc = "error"
    /\ reqs' = [reqs EXCEPT ![r].pc = "done", ![r].status = DefaultErrorStatus]
    /\ UNCHANGED <<jobs, candidates, hotlists, uploads, now, tok, env>>

\* the handler builds the candidate and awaits candidate.save()
WithResumeSave(r) ==
    /\ reqs[r].kind = "withResume" /\ reqs[r].pc = "handler"
    /\ LET doc == NewCandidate(r, reqs[r].name, reqs[r].email, reqs[r].path)
       IN  \E out \in SaveOutcomes(doc, candidates) :
              /\ candidates' = IF out = "ok" THEN InsertCandidate(candidates, doc) ELSE candidates
              /\ reqs' = [reqs EXCEPT ![r].pc = "await", ![r].result = out]
    /\ UNCHANGED <<jobs, hotlists, uploads, now, tok, env>>

\* after the save: 201, or the catch block, which starts fs.unlink of the
\* uploaded file (if any) and answers 400 without waiting for it
WithResumeRespond(r) ==
    /\ reqs[r].kind = "withResume" /\ reqs[r].pc = "await"
    /\ reqs' = [reqs EXCEPT
           ![r].status = IF reqs[r].result = "ok" THEN 201 ELSE 400,
           ![r].pc = IF reqs[r].result # "ok" /\ reqs[r].file.present THEN "unlinking" ELSE "done"]
    /\ UNCHANGED <<jobs, candidates, hotlists, uploads, now, tok, env>>

\* the unlink started by the catch block completes
UnlinkDone(r) ==
    /\ reqs[r].kind = "withResume" /\ reqs[r].pc = "unlinking"
    /\ uploads' = RemoveFile(uploads, reqs[r].path)
    /\ reqs' = [reqs EXCEPT ![r].pc = "done"]
    /\ UNCHANGED <<jobs, candidates, hotlists, now, tok, env>>

NameInputs == {"Bob"}

EmailInputs == {"ann@x", "bob@x", ""}

Resume(mimetype, size) ==
    [present |-> TRUE, mimetype |-> mimetype, size |-> size, originalname |-> "cv"]

FileInputs ==
    {NoFile, Resume("application/pdf", 1024), Resume("application/pdf", FileSizeLimit),
     Resume("application/pdf", FileSizeLimit + 1), Resume("image/png", 1024)}

NextUpload ==
    \/ Tick
    \/ \E r \in Reqs :
        \/ \E n \in NameInputs, e \in EmailInputs : CreateCandidate(r, n, e)
        \/ \E n \in NameInputs, e \in EmailInputs, f \in FileInputs : UploadBegin(r, n, e, f)
        \/ UploadEnd(r)
        \/ UploadErrorRespond(r)
        \/ WithResumeSave(r)
        \/ WithResumeRespond(r)
        \/ UnlinkDone(r)

SpecUpload == Init /\ [][NextUpload]_vars

----------------------------------------------------------------------------
(* Strings.  A string whose characters matter (a pattern, a searched field, *)
(* a comma-separated list) is a tuple of one-character strings.            *)

LowerCase(c) ==
    CASE c = "A" -> "a" [] c = "B" -> "b" [] c = "G" -> "g" [] c = "O" -> "o"
      [] OTHER -> c

\* one pattern character against one text character, under the i option:
\* "." matches any character, any other character matches itself
CharMatches(pc, tc) == pc = "." \/ LowerCase(pc) = LowerCase(tc)

\* { $regex: pat, $options: 'i' } / new RegExp(pat, 'i') tested on a string:
\* the pattern matches somewhere in the text
RegexTest(pat, text) ==
    \E start \in 0..(Len(text) - Len(pat)) :
        \A i \in 1..Len(pat) : CharMatches(pat[i], text[start + i])

RECURSIVE Split(_, _)
\* String.prototype.split(sep): the pieces between the separators
Split(str, sep) ==
    IF \E i \in 1..Len(str) : str[i] = sep
    THEN LET i == CHOOSE k \in 1..Len(str) :
                      str[k] = sep /\ \A m \in 1..(k - 1) : str[m] # sep
         IN  <<SubSeq(str, 1, i - 1)>> \o Split(SubSeq(str, i + 1, Len(str)), sep)
    ELSE <<str>>

RECURSIVE Trim(_)
\* String.prototype.trim()
Trim(str) ==
    IF str = <<>> THEN str
    ELSE IF Head(str) = " " THEN Trim(Tail(str))
    ELSE IF str[Len(str)] = " " THEN Trim(SubSeq(str, 1, Len(str) - 1))
    ELSE str

\* seq.map(f) for f = trim
MapTrim(seq) == [i \in 1..Len(seq) |-> Trim(seq[i])]

\* seq.filter(Boolean) on strings: the empty strings are dropped
FilterBoolean(seq) == SelectSeq(seq, LAMBDA x : x # <<>>)

\* skillsArray of the job filter: requiredSkills.split(',').map(trim)
FilterSkillsArray(str) == MapTrim(Split(str, ","))

\* skillsArray of POST /candidate/with-resume, for skills given as a string:
\* skills.split(',').map(trim).filter(Boolean)
CandidateSkillsArray(str) == FilterBoolean(MapTrim(Split(str, ",")))

----------------------------------------------------------------------------
(* GET /jobs: the query built from req.query *)

FilterParams ==
    {"status", "jobType", "experienceLevel", "primaryTechnology", "remote",
     "location", "search", "requiredSkills"}

\* req.query with no parameter supplied; a parameter is supplied iff it is
\* in .supplied, and holds its default here otherwise
NoParams ==
    [supplied |-> {}, status |-> "", jobType |-> "", experienceLevel |-> "",
     primaryTechnology |-> "", remote |-> "", location |-> <<>>, search |-> <<>>,
     requiredSkills |-> <<>>, page |-> 0, limit |-> 0]

Has(q, p) == p \in q.supplied

\* the value of a parameter, as the function of the parameter name
Param(q, p) ==
    CASE p = "status" -> q.status [] p = "jobType" -> q.jobType
      [] p = "experienceLevel" -> q.experienceLevel
      [] p = "primaryTechnology" -> q.primaryTechnology
      [] p = "remote" -> q.remote [] p = "location" -> q.location
      [] p = "search" -> q.search [] p = "requiredSkills" -> q.requiredSkills

TextParams == {"location", "search", "requiredSkills"}

\* JavaScript truthiness of a query parameter: supplied and not empty
Truthy(q, p) ==
    Has(q, p) /\ (IF p \in TextParams THEN Param(q, p) # <<>> ELSE Param(q, p) # "")

\* a query object: a key of the object is a field with on = TRUE
Off == [on |-> FALSE]

EmptyQuery ==
    [status |-> Off, jobType |-> Off, experienceLevel |-> Off, primaryTechnology |-> Off,
     remote |-> Off, location |-> Off, or |-> Off, requiredSkills |-> Off]

Eq(v) == [on |-> TRUE, eq |-> v]

Regex(pat) == [on |-> TRUE, regex |-> pat]

SearchClauses(term) ==
    [on |-> TRUE,
     clauses |-> << [field |-> "title", regex |-> term],
                    [field |-> "description", regex |-> term],
                    [field |-> "company.name", regex |-> term] >>]

\* the keys set before the search term is looked at
FieldFilters(q) ==
    [status |-> IF Truthy(q, "status") THEN Eq(q.status) ELSE Off,
     jobType |-> IF Truthy(q, "jobType") THEN Eq(q.jobType) ELSE Off,
     experienceLevel |-> IF Truthy(q, "experienceLevel") THEN Eq(q.experienceLevel) ELSE Off,
     primaryTechnology |->
         IF Truthy(q, "primaryTechnology") THEN Eq(q.primaryTechnology) ELSE Off,
     remote |-> IF Has(q, "remote") THEN Eq(q.remote = "true") ELSE Off,
     location |-> IF Truthy(q, "location") THEN Regex(q.location) ELSE Off,
     or |-> Off,
     requiredSkills |-> Off]

\* a search term that replaces the keys set before it instead of joining them
BuildQuerySearchReplaces(q) ==
    [(IF Truthy(q, "search") THEN EmptyQuery ELSE FieldFilters(q)) EXCEPT
        !.or = IF Truthy(q, "search") THEN SearchClauses(q.search) ELSE Off,
        !.requiredSkills =
            IF Truthy(q, "requiredSkills")
            THEN [on |-> TRUE, in |-> FilterSkillsArray(q.requiredSkills)]
            ELSE Off]

\* the query object of GET /jobs
BuildQuery(q) ==
    [FieldFilters(q) EXCEPT
        !.or = IF Truthy(q, "search") THEN SearchClauses(q.search) ELSE Off,
        !.requiredSkills =
            IF Truthy(q, "requiredSkills")
            THEN [on |-> TRUE, in |-> FilterSkillsArray(q.requiredSkills)]
            ELSE Off]

\* page = 1, limit = 10 when not supplied; parseInt of a decimal numeral
DefaultPage == 1

DefaultLimit == 10

PageOf(q) == IF Has(q, "page") THEN q.page ELSE DefaultPage

LimitOf(q) == IF Has(q, "limit") THEN q.limit ELSE DefaultLimit

\* skip of the page query skipping one page too many
SkipOffByOne(q) == PageOf(q) * LimitOf(q)

Skip(q) == (PageOf(q) - 1) * LimitOf(q)

\* Math.ceil(total / limit), for limit >= 1
Pages(total, limit) == (total + limit - 1) \div limit

----------------------------------------------------------------------------
(* The document store: queries on the Job collection *)

FieldOf(job, field) ==
    CASE field = "title" -> job.title
      [] field = "description" -> job.description
      [] field = "company.name" -> job.company.name

\* a document matches a query object iff it matches every key of it
Matches(job, query) ==
    /\ query.status.on => job.status = query.status.eq
    /\ query.jobType.on => job.jobType = query.jobType.eq
    /\ query.experienceLevel.on => job.experienceLevel = query.experienceLevel.eq
    /\ query.primaryTechnology.on => job.primaryTechnology = query.primaryTechnology.eq
    /\ query.remote.on => job.remote = query.remote.eq
    /\ query.location.on => RegexTest(query.location.regex, job.location)
    /\ query.or.on =>
          \E c \in Range(query.or.clauses) : RegexTest(c.regex, FieldOf(job, c.field))
    /\ query.requiredSkills.on =>
          \E skill \in Range(job.requiredSkills), pat \in Range(query.requiredSkills.in) :
              RegexTest(pat, skill)

Matching(coll, query) == {i \in DOMAIN coll : Matches(coll[i], query)}

\* Job.countDocuments(query)
CountDocuments(coll, query) == Cardinality(Matching(coll, query))

RECURSIVE SortedOrders(_, _)
\* the orders sort({postedDate: -1}) may return the matching documents in:
\* newest first, documents with the same postedDate in any order
SortedOrders(coll, idx) ==
    IF idx = {} THEN {<<>>}
    ELSE UNION {{<<i>> \o rest : rest \in SortedOrders(coll, idx \ {i})} :
                   i \in {j \in idx : \A k \in idx : coll[j].postedDate >= coll[k].postedDate}}

\* .skip(skip).limit(limit) of an ordered result, limit >= 1
SkipLimit(order, skip, limit) ==
    SubSeq(order, skip + 1, Min(Len(order), skip + limit))

\* Job.find(query).sort(...).skip(skip).limit(limit): the pages it may return,
\* as sequences of documents
Find(coll, query, skip, limit) ==
    {[i \in DOMAIN pg |-> coll[pg[i]]] :
        pg \in {SkipLimit(o, skip, limit) : o \in SortedOrders(coll, Matching(coll, query))}}

----------------------------------------------------------------------------
(* The requests the listing model issues *)

JobBodies ==
    { [title |-> <<"G", "a">>, description |-> <<"o">>, company |-> [name |-> <<"A", "b">>],
       jobType |-> "Contract", experienceLevel |-> "Lead", location |-> <<"B", "o">>,
       remote |-> TRUE, primaryTechnology |-> "Go", requiredSkills |-> << <<"g", "o">> >>,
       status |-> "active"],
      [title |-> <<>>, description |-> <<"o">>, company |-> [name |-> <<"A", "b">>],
       jobType |-> "Contract", experienceLevel |-> "Lead", location |-> <<"B", "o">>,
       remote |-> FALSE, primaryTechnology |-> "Go", requiredSkills |-> <<>>,
       status |-> ""] }

\* the values a supplied parameter takes
StatusInputs == {"", "active"}
JobTypeInputs == {"", "Contract"}
ExperienceLevelInputs == {"", "Lead"}
PrimaryTechnologyInputs == {"", "Go"}
RemoteInputs == {"", "true", "false"}
LocationInputs == {<<>>, <<"b", "o">>}
SearchInputs == {<<>>, <<"a">>, <<".">>}
RequiredSkillsInputs == {<<>>, <<"g", "o">>, <<"b", ",">>}
PageInputs == {2}    \* page 1 is the default
LimitInputs == {1, 2}

Pick(S, p, values, default) == IF p \in S THEN values ELSE {default}

\* the sets of parameters a listing request supplies
SupplySets ==
    {S \in SUBSET (FilterParams \cup {"page", "limit"}) :
        Cardinality(S \cap FilterParams) <= MaxSupplied}

\* the requests that supply exactly the parameters S
ListInputs(S) ==
    {[supplied |-> S, status |-> st, jobType |-> jt, experienceLevel |-> ex,
      primaryTechnology |-> pt, remote |-> rm, location |-> lo, search |-> se,
      requiredSkills |-> sk, page |-> pg, limit |-> li] :
        st \in Pick(S, "status", StatusInputs, NoParams.status),
        jt \in Pick(S, "jobType", JobTypeInputs, NoParams.jobType),
        ex \in Pick(S, "experienceLevel", ExperienceLevelInputs, NoParams.experienceLevel),
        pt \in Pick(S, "primaryTechnology", PrimaryTechnologyInputs, NoParams.primaryTechnology),
        rm \in Pick(S, "remote", RemoteInputs, NoParams.remote),
        lo \in Pick(S, "location", LocationInputs, NoParams.location),
        se \in Pick(S, "search", SearchInputs, NoParams.search),
        sk \in Pick(S, "requiredSkills", RequiredSkillsInputs, NoParams.requiredSkills),
        pg \in Pick(S, "page", PageInputs, NoParams.page),
        li \in Pick(S, "limit", LimitInputs, NoParams.limit)}

\* listing requests only read; the model runs one at a time, in the first
\* slot, and numbers the other requests as they arrive
Lister == CHOOSE r \in Reqs : \A x \in Reqs : r <= x

ArrivingAfterLister ==
    {r \in Reqs \ {Lister} :
        reqs[r].pc = "idle" /\ \A x \in (Lister + 1)..(r - 1) : reqs[x].pc # "idle"}

(* GET /jobs *)

\* the first await: the page query
ListJobsFind(r) ==
    /\ reqs[r].pc = "idle"
    /\ \E S \in SupplySets : \E q \in ListInputs(S) :
       LET query == BuildQuery(q)
           base == [kind |-> "listJobs", status |-> 0, params |-> q, query |-> query,
                    jobs |-> <<>>, pagination |-> [total |-> 0, page |-> 0, pages |-> 0, limit |-> 0],
                    foundAt |-> Len(jobs), countedAt |-> 0, detail |-> FALSE]
       IN  \/ \E page \in Find(jobs, query, Skip(q), LimitOf(q)) :
                 reqs' = [reqs EXCEPT ![r] = [base EXCEPT !.jobs = page] @@ [pc |-> "found"]]
           \/ reqs' = [reqs EXCEPT ![r] = base @@ [pc |-> "caught"]]
    /\ UNCHANGED <<jobs, candidates, hotlists, uploads, now, tok, env>>

\* the second await, the count query, and the response
ListJobsCount(r) ==
    /\ reqs[r].kind = "listJobs" /\ reqs[r].pc = "found"
    /\ LET q == reqs[r].params
           total == CountDocuments(jobs, reqs[r].query)
       IN  \/ reqs' = [reqs EXCEPT
                  ![r].pc = "done", ![r].status = 200, ![r].countedAt = Len(jobs),
                  ![r].pagination = [total |-> total, page |-> PageOf(q),
                                     pages |-> Pages(total, LimitOf(q)), limit |-> LimitOf(q)]]
           \/ reqs' = [reqs EXCEPT ![r].pc = "caught"]
    /\ UNCHANGED <<jobs, candidates, hotlists, uploads, now, tok, env>>

\* the catch block
ListJobsCaught(r) ==
    /\ reqs[r].kind = "listJobs" /\ reqs[r].pc = "caught"
    /\ reqs' = [reqs EXCEPT ![r].pc = "done", ![r].status = 500, ![r].jobs = <<>>,
                             ![r].detail = DevelopmentDetail]
    /\ UNCHANGED <<jobs, candidates, hotlists, uploads, now, tok, env>>

(* POST /jobs *)

\* the document of a request body: schema defaults, postedDate and updatedAt
NewJob(body, t) ==
    [_id |-> 0, title |-> body.title, description |-> body.description,
     company |-> body.company, jobType |-> body.jobType,
     experienceLevel |-> body.experienceLevel, location |-> body.location,
     remote |-> body.remote, primaryTechnology |-> body.primaryTechnology,
     requiredSkills |-> body.requiredSkills,
     status |-> IF body.status = "" THEN "draft" ELSE body.status,
     postedDate |-> t, updatedAt |-> t, views |-> 0, applications |-> 0]

\* the required validators of the Job schema that the bodies exercise
JobValid(doc) == doc.title # <<>> /\ doc.description # <<>> /\ doc.company.name # <<>>

\* the handler has one await, job.save(), and answers right after it
CreateJob(r, body) ==
    /\ r \in ArrivingAfterLister
    /\ Len(jobs) < Len(InitialJobs) + MaxCreated
    /\ LET doc == NewJob(body, now)
       IN  /\ jobs' = IF JobValid(doc)
                      THEN Append(jobs, [doc EXCEPT !._id = Len(jobs) + 1])
                      ELSE jobs
           /\ reqs' = [reqs EXCEPT ![r] =
                  [kind |-> "createJob", pc |-> "done",
                   status |-> IF JobValid(doc) THEN 201 ELSE 400]]
    /\ UNCHANGED <<candidates, hotlists, uploads, now, tok, env>>

NextList ==
    \/ ListJobsFind(Lister)
    \/ ListJobsCount(Lister)
    \/ ListJobsCaught(Lister)
    \/ \E r \in Reqs, body \in JobBodies : CreateJob(r, body)

SpecList == Init /\ [][NextList]_vars

----------------------------------------------------------------------------
(* The routes that write Job records, with the clock running.  job.save()  *)
(* runs the pre('save') hook of the schema; findByIdAndUpdate is a query   *)
(* and runs no save hook, and the schema sets no timestamps option.         *)

NextJobs ==
    \/ Tick
    \/ \E r \in Reqs :
        \/ \E id \in IdInputs : GetJobCall(r, id)
        \/ GetJobRespond(r)
        \/ \E id \in IdInputs : ApplyCall(r, id)
        \/ ApplyRespond(r)
        \/ \E body \in JobBodies : CreateJob(r, body)

SpecJobs == Init /\ [][NextJobs]_vars

----------------------------------------------------------------------------
(* The routes that answer 500, under every deployment *)

\* the values of NODE_ENV: development, production, and unset
NodeEnvs == {"development", "production", ""}

InitAnyEnv ==
    /\ jobs = InitialJobs
    /\ candidates = InitialCandidates
    /\ hotlists = InitialHotlists
    /\ uploads = <<>>
    /\ now = 1
    /\ reqs = [r \in Reqs |-> IdleReq]
    /\ tok = IdleTok
    /\ env \in NodeEnvs

NextErrors ==
    \/ NextLookup
    \/ ListJobsFind(Lister)
    \/ ListJobsCount(Lister)
    \/ ListJobsCaught(Lister)

SpecErrors == InitAnyEnv /\ [][NextErrors]_vars

----------------------------------------------------------------------------
(* The two skill tokenizers on one comma-separated string *)

SkillChars == {"a", " ", ","}

SkillStrings == UNION {[1..n -> SkillChars] : n \in 0..MaxSkillsLen}

\* the request of GET /jobs that supplies requiredSkills alone
OnlyRequiredSkills(str) ==
    [NoParams EXCEPT !.supplied = {"requiredSkills"}, !.requiredSkills = str]

\* POST /candidate/with-resume: skillsArray of a skills string
CandidateSkills ==
    /\ tok.pc \in {"idle", "filter"}
    /\ tok' = [tok EXCEPT !.candidate = CandidateSkillsArray(tok.input),
                          !.pc = IF tok.pc = "idle" THEN "candidate" ELSE "both"]
    /\ UNCHANGED <<jobs, candidates, hotlists, uploads, now, reqs, env>>

\* GET /jobs: the patterns of the requiredSkills key of the query object
\* (none when the key is not set)
FilterSkills ==
    /\ tok.pc \in {"idle", "candidate"}
    /\ LET key == BuildQuery(OnlyRequiredSkills(tok.input)).requiredSkills
       IN  tok' = [tok EXCEPT !.filter = IF key.on THEN key.in ELSE <<>>,
                              !.pc = IF tok.pc = "idle" THEN "filter" ELSE "both"]
    /\ UNCHANGED <<jobs, candidates, hotlists, uploads, now, reqs, env>>

InitTokens ==
    /\ jobs = InitialJobs
    /\ candidates = InitialCandidates
    /\ hotlists = InitialHotlists
    /\ uploads = <<>>
    /\ now = 1
    /\ reqs = [r \in Reqs |-> IdleReq]
    /\ tok \in {[IdleTok EXCEPT !.input = str] : str \in SkillStrings}
    /\ env = "production"

NextTokens == CandidateSkills \/ FilterSkills

SpecTokens == InitTokens /\ [][NextTokens]_vars

----------------------------------------------------------------------------
(* Claims about the lookup routes *)

Settled == \A r \in Reqs : reqs[r].pc \in {"idle", "done"}

\* the requests of one kind that were answered 200 for the record with this key
Served(kind, key) ==
    {r \in Reqs : /\ reqs[r].kind = kind /\ reqs[r].pc = "done"
                  /\ reqs[r].status = 200 /\ reqs[r].id.key = key}

\* C1: once every request has completed, each job's views counter has grown
\* by exactly the number of GET /jobs/{id} requests served for it and its
\* applications counter by exactly the number of POST /jobs/{id}/apply
\* requests served for it, whatever the interleaving: no increment is lost.
C1_NoLostIncrement ==
    Settled =>
        \A i \in DOMAIN jobs :
            /\ jobs[i].views = InitialJobs[i].views + Cardinality(Served("getJob", jobs[i]._id))
            /\ jobs[i].applications =
                   InitialJobs[i].applications + Cardinality(Served("apply", jobs[i]._id))

\* a fetch and an apply of the same job have both completed
C1_Witness ==
    /\ Settled
    /\ \E i \in DOMAIN jobs :
          /\ Served("getJob", jobs[i]._id) # {}
          /\ Served("apply", jobs[i]._id) # {}
          /\ jobs[i].views = 1 /\ jobs[i].applications = 1

\* the collection a lookup route reads
CollectionOf(kind) ==
    CASE kind \in {"getJob", "apply"} -> jobs
      [] kind = "getCandidate" -> candidates
      [] OTHER -> hotlists

\* C4: on every id-based lookup route a malformed identifier is answered 400
\* and a well-formed identifier that names no record is answered 404 (storage
\* failures aside).
C4_MalformedIs400UnknownIs404 ==
    \A r \in Reqs :
        (reqs[r].kind \in LookupKinds /\ reqs[r].pc = "done" /\ reqs[r].result # "StoreError") =>
            /\ ~reqs[r].id.wellFormed => reqs[r].status = 400
            /\ (/\ reqs[r].id.wellFormed
                /\ \A i \in DOMAIN CollectionOf(reqs[r].kind) :
                      CollectionOf(reqs[r].kind)[i]._id # reqs[r].id.key)
               => reqs[r].status = 404

----------------------------------------------------------------------------
(* Claims about candidate creation and the resume upload *)

\* the file of the request passed the upload validation and was stored
FileStored(r) ==
    /\ reqs[r].file.present /\ FileFilter(reqs[r].file)
    /\ reqs[r].file.size <= FileSizeLimit

\* the file of the request is refused by the upload validation
FileRefused(r) ==
    /\ reqs[r].file.present
    /\ (~FileFilter(reqs[r].file) \/ reqs[r].file.size > FileSizeLimit)

Owned(r) == {i \in DOMAIN candidates : candidates[i].owner = r}

\* C2: in POST /candidate/with-resume, when the file was stored and the save
\* of the candidate failed, the stored file is gone from the uploads
\* directory by the time the 400 response has been sent.
C2_FileDeletedBeforeErrorResponse ==
    \A r \in Reqs :
        (/\ reqs[r].kind = "withResume" /\ reqs[r].status = 400
         /\ FileStored(r) /\ reqs[r].result # "ok")
        => reqs[r].path \notin DOMAIN uploads

\* C3: a POST /candidate/with-resume request whose file is refused by the
\* upload validation (type or size) is answered 400, creates no candidate and
\* leaves no file of its own in the uploads directory.
C3_RefusedUploadIs400 ==
    \A r \in Reqs :
        (reqs[r].kind = "withResume" /\ reqs[r].pc = "done" /\ FileRefused(r)) =>
            /\ reqs[r].status = 400
            /\ Owned(r) = {}
            /\ \A n \in DOMAIN uploads : uploads[n] # r

\* no two persisted candidates share an email
EmailsUnique ==
    \A i, j \in DOMAIN candidates :
        candidates[i].email = candidates[j].email => i = j

\* C10: no two persisted candidates share an email, and a creation request
\* (POST /candidate or POST /candidate/with-resume) whose email belonged to a
\* persisted candidate when it arrived is answered 400 and adds no record.
C10_EmailUniqueAndDuplicateIs400 ==
    /\ EmailsUnique
    /\ \A r \in Reqs :
          (/\ reqs[r].kind \in {"createCandidate", "withResume"}
           /\ reqs[r].pc = "done" /\ reqs[r].taken)
          => (reqs[r].status = 400 /\ Owned(r) = {})

----------------------------------------------------------------------------
(* Claims about GET /jobs *)

\* the request with one parameter omitted
Omit(q, p) ==
    LET d == [q EXCEPT !.supplied = @ \ {p}]
    IN  CASE p = "status" -> [d EXCEPT !.status = NoParams.status]
          [] p = "jobType" -> [d EXCEPT !.jobType = NoParams.jobType]
          [] p = "experienceLevel" -> [d EXCEPT !.experienceLevel = NoParams.experienceLevel]
          [] p = "primaryTechnology" ->
                 [d EXCEPT !.primaryTechnology = NoParams.primaryTechnology]
          [] p = "remote" -> [d EXCEPT !.remote = NoParams.remote]
          [] p = "location" -> [d EXCEPT !.location = NoParams.location]
          [] p = "search" -> [d EXCEPT !.search = NoParams.search]
          [] p = "requiredSkills" -> [d EXCEPT !.requiredSkills = NoParams.requiredSkills]

\* the listing request has built its query
Listing(r) == reqs[r].kind = "listJobs"

\* the listing request has its page, and no job was created since
ListedNow(r) ==
    /\ Listing(r) /\ reqs[r].pc = "found" /\ reqs[r].foundAt = Len(jobs)

\* a parameter supplied as the empty string
SuppliedEmpty(q, p) == Has(q, p) /\ ~Truthy(q, p)

\* C5: in the query GET /jobs builds, a filter parameter supplied as the empty
\* string adds no constraint: the query equals the one built with the
\* parameter omitted; and remote constrains to true only for "true", to false
\* only for another non-empty value, and not at all otherwise.
C5_EmptyParameterIsAbsent ==
    \A r \in Reqs : Listing(r) =>
        LET q == reqs[r].params
        IN  /\ \A p \in FilterParams :
                  SuppliedEmpty(q, p) => reqs[r].query = BuildQuery(Omit(q, p))
            /\ reqs[r].query.remote.on <=> Truthy(q, "remote")
            /\ reqs[r].query.remote.on => (reqs[r].query.remote.eq <=> q.remote = "true")

\* text contains term, letter case ignored
ContainsIgnoreCase(text, term) ==
    \E start \in 0..(Len(text) - Len(term)) :
        \A i \in 1..Len(term) : LowerCase(term[i]) = LowerCase(text[start + i])

\* the job satisfies the filter that parameter p of the request states
Satisfies(job, q, p) ==
    CASE p = "status" -> job.status = q.status
      [] p = "jobType" -> job.jobType = q.jobType
      [] p = "experienceLevel" -> job.experienceLevel = q.experienceLevel
      [] p = "primaryTechnology" -> job.primaryTechnology = q.primaryTechnology
      [] p = "remote" -> job.remote = (q.remote = "true")
      [] p = "location" -> ContainsIgnoreCase(job.location, q.location)
      [] p = "search" ->
             \/ ContainsIgnoreCase(job.title, q.search)
             \/ ContainsIgnoreCase(job.description, q.search)
             \/ ContainsIgnoreCase(job.company.name, q.search)
      [] p = "requiredSkills" ->
             \E skill \in Range(job.requiredSkills),
                token \in Range(MapTrim(Split(q.requiredSkills, ","))) :
                 ContainsIgnoreCase(skill, token)

\* C6: GET /jobs returns only jobs that satisfy every supplied filter, the
\* search term being one clause (title or description or company name
\* contains the term, letter case ignored) joined to the other filters.
C6_OnlyJobsMatchingAllFilters ==
    \A r \in Reqs : (Listing(r) /\ reqs[r].pc \in {"found", "done"}) =>
        \A job \in Range(reqs[r].jobs) :
            \A p \in FilterParams :
                Truthy(reqs[r].params, p) => Satisfies(job, reqs[r].params, p)

\* C7 as stated: against an unchanged store, the jobs a listing request
\* returns are among the jobs the same request returns with one of its filter
\* parameters omitted.
C7_PageMonotone ==
    \A r \in Reqs : ListedNow(r) =>
        LET q == reqs[r].params
        IN  \A p \in q.supplied \cap FilterParams :
                \A page \in Find(jobs, BuildQuery(Omit(q, p)), Skip(Omit(q, p)), LimitOf(Omit(q, p))) :
                    Range(reqs[r].jobs) \subseteq Range(page)

\* C7, amended: the jobs matching the request's filters (the jobs total
\* counts) are among those matching the same request with one filter
\* parameter omitted; and the returned page is within the page of that relaxed
\* request whenever the relaxed request's page holds all its matching jobs
\* (page 1 and limit at least their number).
C7_MatchingMonotone ==
    \A r \in Reqs : Listing(r) =>
        LET q == reqs[r].params
        IN  \A p \in q.supplied \cap FilterParams :
                LET relaxed == BuildQuery(Omit(q, p))
                IN  /\ Matching(jobs, reqs[r].query) \subseteq Matching(jobs, relaxed)
                    /\ (/\ ListedNow(r)
                        /\ (IF Has(q, "page") THEN q.page ELSE 1) = 1
                        /\ (IF Has(q, "limit") THEN q.limit ELSE 10)
                               >= Cardinality(Matching(jobs, relaxed)))
                       => \A page \in Find(jobs, relaxed, 0, Cardinality(Matching(jobs, relaxed))) :
                              Range(reqs[r].jobs) \subseteq Range(page)

\* a filter that holds back a stored job was supplied, and the page came back
C7_Witness ==
    \E r \in Reqs :
        /\ ListedNow(r)
        /\ \E p \in FilterParams :
              /\ Truthy(reqs[r].params, p)
              /\ Matching(jobs, reqs[r].query) # Matching(jobs, BuildQuery(Omit(reqs[r].params, p)))
        /\ ~Has(reqs[r].params, "page") /\ ~Has(reqs[r].params, "limit")
        /\ reqs[r].jobs # <<>>

\* the least n with n * d >= t
CeilDiv(t, d) == CHOOSE n \in 0..t : n * d >= t /\ \A m \in 0..(n - 1) : m * d < t

\* C8: with T jobs matching the filters, limit L >= 1 and page P >= 1
\* (defaults 1 and 10), a listing whose page query and count query saw the
\* same collection returns min(L, max(0, T - (P-1)*L)) jobs and reports
\* total = T, pages = ceil(T / L), page = P, limit = L.
C8_Pagination ==
    \A r \in Reqs :
        (/\ Listing(r) /\ reqs[r].pc = "done" /\ reqs[r].status = 200
         /\ reqs[r].foundAt = reqs[r].countedAt) =>
            LET q == reqs[r].params
                P == IF Has(q, "page") THEN q.page ELSE 1
                L == IF Has(q, "limit") THEN q.limit ELSE 10
                T == Cardinality({i \in 1..reqs[r].foundAt : Matches(jobs[i], reqs[r].query)})
            IN  (P >= 1 /\ L >= 1) =>
                    /\ Len(reqs[r].jobs) = Min(L, Max(0, T - (P - 1) * L))
                    /\ reqs[r].pagination =
                           [total |-> T, page |-> P, pages |-> CeilDiv(T, L), limit |-> L]

\* three matching jobs, limit 2, page 2: one job on the page, two pages
C8_Witness ==
    \E r \in Reqs :
        /\ Listing(r) /\ reqs[r].pc = "done" /\ reqs[r].status = 200
        /\ reqs[r].foundAt = reqs[r].countedAt
        /\ reqs[r].pagination = [total |-> 3, page |-> 2, pages |-> 2, limit |-> 2]
        /\ Len(reqs[r].jobs) = 1

----------------------------------------------------------------------------
(* Claim about the skill tokenizers *)

\* C9: for every comma-separated string, the token list of the candidate
\* skills and the token list the job filter derives for requiredSkills are
\* the same, and neither holds an empty token.
C9_SameTokens ==
    tok.pc = "both" =>
        /\ tok.candidate = tok.filter
        /\ \A t \in Range(tok.candidate) \cup Range(tok.filter) : t # <<>>

----------------------------------------------------------------------------
(* Claim about the Job timestamps *)

\* C11: every step that changes a Job record or adds one (POST /jobs, the
\* views increment of GET /jobs/{id}, the applications increment of
\* POST /jobs/{id}/apply) leaves that record's updatedAt at the time of the
\* step, so updatedAt is never older than the last counter change.
C11_MutationRefreshesUpdatedAt ==
    [][\A i \in DOMAIN jobs' :
          (i \notin DOMAIN jobs \/ jobs'[i] # jobs[i]) => jobs'[i].updatedAt = now]_vars

----------------------------------------------------------------------------
(* Claims about the stored resume files *)

\* the upload of the request was accepted: its file passed the type and size
\* validation and was stored under the request's generated name
Accepted(r) ==
    /\ reqs[r].kind = "withResume" /\ FileStored(r)
    /\ reqs[r].pc \in {"handler", "await", "unlinking", "done"}

\* C12: no two accepted resume uploads are stored under the same generated
\* filename, also when they carry the same original filename and are named
\* within the same clock millisecond.
C12_DistinctFilenames ==
    \A r1, r2 \in Reqs :
        (r1 # r2 /\ Accepted(r1) /\ Accepted(r2)) => reqs[r1].path # reqs[r2].path

\* C14: every persisted candidate whose resumeFile.path is set refers to a
\* file that exists in the uploads directory: the cleanup of a request whose
\* save failed deletes no file a persisted candidate of another request
\* refers to.
C14_PersistedResumeExists ==
    \A i \in DOMAIN candidates :
        candidates[i].resumeFile.path # <<>> =>
            candidates[i].resumeFile.path \in DOMAIN uploads

----------------------------------------------------------------------------
(* Claim about the 500 responses *)

\* C13: a 500 response carries the caught error's message only when the
\* deployment is not production; in production no 500 response body holds it.
C13_DetailOnlyOutsideProduction ==
    \A r \in Reqs :
        (/\ reqs[r].kind \in LookupKinds \cup {"listJobs"}
         /\ reqs[r].pc = "done" /\ reqs[r].status = 500 /\ reqs[r].detail)
        => env # "production"

----------------------------------------------------------------------------
(* Claim about a listing that job creations interleave with *)

\* the jobs matching the request's query in the collection its page was read
\* from (jobs are only appended while a listing runs)
MatchingAtPageRead(r) ==
    {i \in 1..reqs[r].foundAt : Matches(jobs[i], reqs[r].query)}

\* C15: the total a GET /jobs response reports, and the pages value derived
\* from it, are those of the store state its page of jobs was read from, also
\* when jobs are created between its page query and its count query.
C15_TotalFromPageState ==
    \A r \in Reqs :
        (Listing(r) /\ reqs[r].pc = "done" /\ reqs[r].status = 200) =>
            LET T == Cardinality(MatchingAtPageRead(r))
            IN  /\ reqs[r].pagination.total = T
                /\ reqs[r].pagination.pages = CeilDiv(T, LimitOf(reqs[r].params))

====
